---- MODULE Spec2Model ----
(***************************************************************************)
(* Model of the playht_rs client engine: the polymorphic error decoder     *)
(* (src/error.rs), the request dispatch operations and the push / pull     *)
(* streaming relay operations of Client (src/api/mod.rs).                  *)
(***************************************************************************)
EXTENDS Integers, Sequences, FiniteSets, TLC

\* ---------------------------------------------------------------- bounds
\* number of distinct string contents a JSON string may have
NumStrs == 2
\* largest number of chunks a response body arrives in
MaxChunks == 2
\* largest number of bytes in one chunk
MaxChunkLen == 2

\* ------------------------------------------------------- JSON values
\* A JSON value is a record [kind, str, fields].  str is the content of a
\* string, one of 1..NumStrs, each a Unicode text; fields holds the fields
\* of an object by name and the elements of an array by position.  Kind
\* "number" is a number an f64 holds, integer or not; kind "huge" is a
\* number no f64 holds (1e400); kind "surrogate" is a string token with a
\* lone surrogate escape ("\ud800"), which is no Unicode text.
Strs == 1 .. NumStrs

NoFields == [k \in {} |-> 0]

JStr(s) == [kind |-> "string", str |-> s, fields |-> NoFields]

JNum == [kind |-> "number", str |-> 0, fields |-> NoFields]

JHuge == [kind |-> "huge", str |-> 0, fields |-> NoFields]

JSurrogate == [kind |-> "surrogate", str |-> 0, fields |-> NoFields]

JNull == [kind |-> "null", str |-> 0, fields |-> NoFields]

JArr(elems) == [kind |-> "array", str |-> 0, fields |-> elems]

JObj(f) == [kind |-> "object", str |-> 0, fields |-> f]

\* A response body is a JSON value, a JSON value followed by other text
\* (kind "trailing": {} x), or text that does not start with a JSON value
\* (kind "malformed")
Trailing(value) == [kind |-> "trailing", str |-> 0, fields |-> <<value>>]

Malformed == [kind |-> "malformed", str |-> 0, fields |-> NoFields]

\* serde_json's recursion limit: a Deserializer starts with
\* remaining_depth 128
RecursionLimit == 128

\* A value inside n levels of nesting, n >= 1, written short: each level
\* is an array of one element when key is "", and an object with the one
\* field key otherwise.  Wrapped(2, "", JNum) is [[number]]
Wrapped(n, key, value) ==
  [kind |-> "wrapped", str |-> n, fields |-> [key |-> key, value |-> value]]

\* a value with its outermost level written out as an array or an object
Outer(value) ==
  IF value.kind # "wrapped" THEN value
  ELSE LET rest == IF value.str = 1 THEN value.fields.value
                   ELSE Wrapped(value.str - 1, value.fields.key, value.fields.value)
       IN IF value.fields.key = "" THEN JArr(<<rest>>)
          ELSE JObj([k \in {value.fields.key} |-> rest])

\* an array nested n deep: [] for 1, [[]] for 2
Nest(n) == IF n <= 1 THEN JArr(<<>>) ELSE Wrapped(n - 1, "", JArr(<<>>))

\* an object nested n deep: {} for 1, {"other": {}} for 2
ObjNest(n) == IF n <= 1 THEN JObj(NoFields) ELSE Wrapped(n - 1, "other", JObj(NoFields))

\* the field names the error decoder looks at
ErrKeys == {"error_message", "error_id", "message", "error"}

\* values a field the decoder looks at takes: a string, a number, or a
\* number no f64 holds
FieldVals == {JStr(s) : s \in Strs} \cup {JNum, JHuge}

\* values of a field the decoder never looks at: a number, a number out
\* of range inside an array, a string token with a lone surrogate, and
\* the deepest array and object from which a Value is built in a field
\* of the body, and the ones one level deeper
OtherVals ==
  {JNum, JArr(<<JHuge>>), JSurrogate, Nest(RecursionLimit - 2), Nest(RecursionLimit - 1),
   ObjNest(RecursionLimit - 1)}

\* partial assignments of the four decoder keys
ErrFields == UNION {[K -> FieldVals] : K \in SUBSET ErrKeys}

\* f extended with a field the decoder never looks at
WithOther(f, v) == [k \in DOMAIN f \cup {"other"} |-> IF k = "other" THEN v ELSE f[k]]

\* objects over the four decoder keys, with or without an unrelated field
Objects ==
  {JObj(f) : f \in ErrFields} \cup {JObj(WithOther(f, v)) : f \in ErrFields, v \in OtherVals}

\* JSON values, and a value of each shape followed by other text
JsonValues ==
  {JStr(s) : s \in Strs}
    \cup {JNum, JNull, JHuge, JSurrogate, JArr(<<>>), JArr(<<JHuge>>),
          Nest(RecursionLimit - 1), Nest(RecursionLimit)}
    \cup Objects

TrailingBodies ==
  {Trailing(v) :
     v \in {JStr(1), JNum, JObj(NoFields), JArr(<<>>),
            JObj([k \in {"error_message", "error_id"} |-> JStr(1)]),
            JObj([k \in {"message", "error"} |-> JStr(1)])}}

\* ------------------------------------------------- error.rs: APIError
\* Option<T>: None is <<>>, Some(x) is <<x>>
None == <<>>

Some(x) == <<x>>

\* serde_json::Value::get with a string index: Some only on an object
\* that has the key
get(value, key) ==
  IF value.kind = "object" /\ key \in DOMAIN value.fields
  THEN Some(value.fields[key])
  ELSE None

\* serde_json::Value::as_str composed through Option::and_then
and_then_as_str(opt) ==
  IF opt # None /\ opt[1].kind = "string" THEN Some(opt[1].str) ELSE None

\* the three variants of APIError, and the two ways decoding fails
Gen(error_message, error_id) == [variant |-> "Gen", a |-> error_message, b |-> error_id]

Internal(message, error) == [variant |-> "Internal", a |-> message, b |-> error]

RateLimit(s) == [variant |-> "RateLimit", a |-> s, b |-> 0]

\* an error of serde_json's own (code 1: a syntax error, a number out of
\* range, the recursion limit, trailing characters) and the decoder's
\* "Unknown API error format" (code 0)
SyntaxError == [variant |-> "DecodeError", a |-> 1, b |-> 0]

UnknownFormat == [variant |-> "DecodeError", a |-> 0, b |-> 0]

\* the value a Deserializer reads at the start of a body; what follows
\* it is not looked at before the end of the input is checked
Leading(body) == Outer(IF body.kind = "trailing" THEN body.fields[1] ELSE body)

RECURSIVE ValueBuilds(_, _)
\* Value::deserialize: whether a Value is built from the value read.
\* Entering an array or an object takes one from remaining_depth and
\* fails when that leaves none; a number out of the range of f64 and a
\* string with a lone surrogate fail wherever they are
ValueBuilds(value, remaining_depth) ==
  CASE value.kind \in {"array", "object"} ->
         /\ remaining_depth - 1 # 0
         /\ \A k \in DOMAIN value.fields : ValueBuilds(value.fields[k], remaining_depth - 1)
    [] value.kind = "wrapped" ->
         /\ remaining_depth - value.str > 0
         /\ ValueBuilds(value.fields.value, remaining_depth - value.str)
    [] value.kind \in {"string", "number", "null"} -> TRUE
    [] OTHER -> FALSE

\* variant of Deserialize: no branch for a bare string
DeserializeNoString(body) ==
  LET value == Leading(body)
      error_message == and_then_as_str(get(value, "error_message"))
      error_id == and_then_as_str(get(value, "error_id"))
      message == and_then_as_str(get(value, "message"))
      error == and_then_as_str(get(value, "error"))
  IN IF ~ValueBuilds(value, RecursionLimit) THEN SyntaxError
     ELSE IF error_message # None /\ error_id # None
          THEN Gen(error_message[1], error_id[1])
     ELSE IF message # None /\ error # None
          THEN Internal(message[1], error[1])
     ELSE UnknownFormat

\* impl Deserialize for APIError, on a Deserializer over the body: the
\* value at the start of the body becomes a Value first, and the error of
\* that step is returned before any shape is tried
Deserialize(body) ==
  LET value == Leading(body)
      error_message == and_then_as_str(get(value, "error_message"))
      error_id == and_then_as_str(get(value, "error_id"))
      message == and_then_as_str(get(value, "message"))
      error == and_then_as_str(get(value, "error"))
  IN IF ~ValueBuilds(value, RecursionLimit) THEN SyntaxError
     ELSE IF error_message # None /\ error_id # None
          THEN Gen(error_message[1], error_id[1])
     ELSE IF message # None /\ error # None
          THEN Internal(message[1], error[1])
     ELSE IF value.kind = "string" THEN RateLimit(value.str)
     ELSE UnknownFormat

\* serde_json::from_slice::<APIError>: the error of the decoder as it is,
\* and after the decoder returned a variant the check that the input has
\* ended
from_slice(body) ==
  IF Deserialize(body).variant = "DecodeError" THEN Deserialize(body)
  ELSE IF body.kind = "trailing" THEN SyntaxError
  ELSE Deserialize(body)

\* ------------------------------------------------ api/mod.rs: Client
\* operations that decode one JSON document
DispatchOps ==
  {"get_stock_voices", "get_cloned_voices", "clone_voice_from_file",
   "clone_voice_from_url", "delete_cloned_voice", "create_tts_job",
   "get_tts_job", "get_audio_stream_url"}

\* operations that write the body to a caller-supplied writer
PushOps ==
  {"create_tts_job_write_progress_stream", "write_tts_job_progress_stream",
   "write_tts_job_audio_stream", "write_audio_stream"}

\* operations that return the body as a stream of chunks
PullOps == {"stream_tts_job_progress", "stream_audio"}

\* operations with a remote side effect
WriteOps ==
  {"create_tts_job", "create_tts_job_write_progress_stream",
   "clone_voice_from_file", "clone_voice_from_url", "delete_cloned_voice"}

\* HTTP status codes a response may carry
Statuses == {200, 201, 300, 429, 500}

\* http::StatusCode::is_success
is_success(status) == 200 <= status /\ status <= 299

\* bytes and chunks of a streamed body
Bytes == {0, 1}

\* a chunk has up to MaxChunkLen bytes; neighbouring bytes differ, so that
\* a byte lost, repeated or out of place shows
Chunks == {[i \in 1 .. n |-> (i + first) % 2] : n \in 1 .. MaxChunkLen, first \in Bytes}

ChunkSeqs == UNION {[1 .. n -> Chunks] : n \in 0 .. MaxChunks}

RECURSIVE Concat(_)
\* the bytes of a sequence of chunks, in order
Concat(cs) == IF cs = <<>> THEN <<>> ELSE Head(cs) \o Concat(Tail(cs))

\* Deserializing a value as a type gives the set of results the code has
\* for the JSON values the model value stands for: {TRUE} when each of
\* them deserializes, {FALSE} when none does, BOOLEAN for a number read as
\* an integer, which depends on the number.

\* the field key of an object, Absent when the value has no such field
Absent == [kind |-> "absent", str |-> 0, fields |-> NoFields]

field(body, key) ==
  IF body.kind = "object" /\ key \in DOMAIN body.fields THEN body.fields[key] ELSE Absent

\* a struct or a Vec whose parts deserialize with the results in parts:
\* it does when every part does
All(parts) ==
  {b \in BOOLEAN : IF b THEN \A p \in parts : TRUE \in p ELSE \E p \in parts : FALSE \in p}

\* Option<T>, and a field of a struct that is #[serde(default)]: null
\* and a missing field are None, any other value is as T takes it
Opt(results, value) == IF value.kind \in {"absent", "null"} THEN {TRUE} ELSE results

\* String: a string of Unicode text
AsString(value) == {value.kind = "string"}

\* f32 and f64: a number an f64 holds is cast to the type; one out of
\* that range is serde_json's "number out of range" error
AsFloat(value) == {value.kind = "number"}

\* u8 and i32: a number that is an integer in the range of the type
AsInteger(value) == IF value.kind = "number" THEN BOOLEAN ELSE {FALSE}

\* the value the field names[i] of a struct is read from: the field of
\* that name of an object, the element at that place of an array; Absent
\* when there is none
read(value, names, i) ==
  LET v == Outer(value)
  IN IF v.kind = "array"
     THEN IF i <= Len(v.fields) THEN v.fields[i] ELSE Absent
     ELSE field(v, names[i])

\* derive(Deserialize) on a struct with the fields names, in the order of
\* their declaration, results[i] being the results of reading field i.
\* From an object the fields are read by name and a field that is not
\* named is skipped, whatever it holds; from an array they are read by
\* position: an element too many is an error, and so is one too few
\* unless the struct is #[serde(default)]
AsStruct(value, names, results, defaulted) ==
  LET v == Outer(value)
  IN CASE v.kind = "object" -> All({results[i] : i \in DOMAIN names})
       [] v.kind = "array" ->
            IF \/ Len(v.fields) > Len(names)
               \/ ~defaulted /\ Len(v.fields) < Len(names)
            THEN {FALSE}
            ELSE All({results[i] : i \in DOMAIN v.fields})
       [] OTHER -> {FALSE}

\* the elements of an array
Elements(value) == LET v == Outer(value) IN IF v.kind = "array" THEN v.fields ELSE <<>>

\* Vec<T>: an array each of whose elements is a T, results[i] being the
\* results of reading element i as T
AsVec(value, results) ==
  IF Outer(value).kind = "array" THEN All({results[i] : i \in DOMAIN results}) ELSE {FALSE}

\* Voice: id and name are Strings, the other fields Option<String>
AsVoice(value) ==
  LET names == <<"id", "name", "sample", "accent", "age", "gender", "language",
                 "lang_code", "loudness", "style", "tempo", "texture">>
  IN AsStruct(value, names,
              [i \in DOMAIN names |->
                 LET v == read(value, names, i)
                 IN IF names[i] \in {"id", "name"} THEN AsString(v) ELSE Opt(AsString(v), v)],
              FALSE)

\* ClonedVoice: id and name are Strings, type is an Option<String>
AsClonedVoice(value) ==
  LET names == <<"id", "name", "type">>
  IN AsStruct(value, names,
              [i \in DOMAIN names |->
                 LET v == read(value, names, i)
                 IN IF names[i] = "type" THEN Opt(AsString(v), v) ELSE AsString(v)],
              FALSE)

\* DeleteClonedVoiceResp: message is a String, deleted a ClonedVoice
AsDeleteClonedVoiceResp(value) ==
  LET names == <<"message", "deleted">>
  IN AsStruct(value, names,
              [i \in DOMAIN names |->
                 LET v == read(value, names, i)
                 IN IF names[i] = "message" THEN AsString(v) ELSE AsClonedVoice(v)],
              FALSE)

\* the names serde gives the variants of the enum of a field of TTSJobReq
Variants(key) ==
  CASE key = "voice_engine" -> {"PlayHT1.0", "PlayHT2.0", "PlayHT2.0-turbo"}
    [] key = "output_format" -> {"mp3", "wav", "ogg", "flac", "mulav"}
    [] key = "quality" -> {"draft", "low", "medium", "high", "premium"}
    [] key = "emotion" ->
         {"female_happy", "female_sad", "female_angry", "female_fearful",
          "female_disgust", "female_surprised", "male_happy", "male_sad",
          "male_angry", "male_fearful", "male_disgust", "male_surprised"}

\* an enum of unit variants: the name of a variant as a string, which no
\* string of the model is, or an object whose one field has the name of
\* a variant and holds null
AsEnum(value, variants) ==
  LET v == Outer(value)
  IN {/\ v.kind = "object"
      /\ \E k \in variants : DOMAIN v.fields = {k} /\ v.fields[k].kind = "null"}

\* TTSJobReq, #[serde(default)]: every field is an Option: a String, an
\* enum, a float or an integer
AsTTSJobReq(value) ==
  LET names == <<"text", "voice", "quality", "output_format", "voice_engine", "emotion",
                 "speed", "temperature", "sample_rate", "seed", "voice_guidance",
                 "style_guidance">>
  IN AsStruct(value, names,
              [i \in DOMAIN names |->
                 LET v == read(value, names, i)
                     k == names[i]
                 IN CASE k \in {"text", "voice"} -> Opt(AsString(v), v)
                      [] k \in {"quality", "output_format", "voice_engine", "emotion"} ->
                           Opt(AsEnum(v, Variants(k)), v)
                      [] k \in {"sample_rate", "seed"} -> Opt(AsInteger(v), v)
                      [] OTHER -> Opt(AsFloat(v), v)],
              TRUE)

\* Output: duration is an f64, size an i32, url a String
AsOutput(value) ==
  LET names == <<"duration", "size", "url">>
  IN AsStruct(value, names,
              [i \in DOMAIN names |->
                 LET v == read(value, names, i)
                 IN CASE names[i] = "duration" -> AsFloat(v)
                      [] names[i] = "size" -> AsInteger(v)
                      [] OTHER -> AsString(v)],
              FALSE)

\* Link: every field is an Option<String>
AsLink(value) ==
  LET names == <<"contentType", "description", "href", "method", "rel">>
  IN AsStruct(value, names,
              [i \in DOMAIN names |->
                 LET v == read(value, names, i) IN Opt(AsString(v), v)],
              FALSE)

\* TTSJob: id and created are Strings, input is a TTSJobReq, output an
\* Option<Output>, status an Option<String>, _links an Option<Vec<Link>>
AsTTSJob(value) ==
  LET names == <<"id", "created", "input", "output", "status", "_links">>
  IN AsStruct(value, names,
              [i \in DOMAIN names |->
                 LET v == read(value, names, i)
                     k == names[i]
                 IN CASE k \in {"id", "created"} -> AsString(v)
                      [] k = "input" -> AsTTSJobReq(v)
                      [] k = "output" -> Opt(AsOutput(v), v)
                      [] k = "status" -> Opt(AsString(v), v)
                      [] OTHER ->
                           Opt(AsVec(v, [j \in DOMAIN Elements(v) |-> AsLink(Elements(v)[j])]),
                               v)],
              FALSE)

\* TTSStreamURL: every field is a String
AsTTSStreamURL(value) ==
  LET names == <<"href", "method", "contentType", "rel", "description">>
  IN AsStruct(value, names,
              [i \in DOMAIN names |-> AsString(read(value, names, i))], FALSE)

\* resp.json::<T>() for the success type T of op: serde_json::from_slice
\* reads a T at the start of the body, and the input must end after it
Deserializes(op, body) ==
  IF body.kind \in {"trailing", "malformed"} THEN {FALSE}
  ELSE CASE op = "get_stock_voices" ->
              AsVec(body, [i \in DOMAIN Elements(body) |-> AsVoice(Elements(body)[i])])
         [] op = "get_cloned_voices" ->
              AsVec(body, [i \in DOMAIN Elements(body) |-> AsClonedVoice(Elements(body)[i])])
         [] op \in {"clone_voice_from_file", "clone_voice_from_url"} -> AsClonedVoice(body)
         [] op = "delete_cloned_voice" -> AsDeleteClonedVoiceResp(body)
         [] op \in {"create_tts_job", "get_tts_job"} -> AsTTSJob(body)
         [] op = "get_audio_stream_url" -> AsTTSStreamURL(body)

\* whether a body can deserialize as the success type of op
CanBeSuccess(op, body) == TRUE \in Deserializes(op, body)

\* whether a body can fail to deserialize as the success type of op
CanBeFailure(op, body) == FALSE \in Deserializes(op, body)

\* objects that deserialize as ClonedVoice, as DeleteClonedVoiceResp (and
\* as an error envelope too), as TTSJob and as TTSStreamURL, and objects
\* that may: a TTSJob with a seed
ClonedVoiceBody == JObj([k \in {"id", "name"} |-> JStr(1)])

DeleteClonedVoiceRespBody ==
  JObj([k \in {"message", "error", "deleted"} |->
          IF k = "deleted" THEN ClonedVoiceBody ELSE JStr(IF k = "error" THEN 2 ELSE 1)])

TTSJobWith(input) ==
  JObj([k \in {"id", "created", "input"} |-> IF k = "input" THEN input ELSE JStr(1)])

TTSJobBody == TTSJobWith(JObj(NoFields))

\* a TTSJob whose input is an array, one with a seed, one with a speed an
\* f32 takes and one whose speed is out of range
TTSJobArrayBody == TTSJobWith(JArr(<<JStr(1), JNull>>))

TTSJobSeedBody == TTSJobWith(JObj([f \in {"seed"} |-> JNum]))

TTSJobSpeedBody == TTSJobWith(JObj([f \in {"speed"} |-> JNum]))

TTSJobHugeBody == TTSJobWith(JObj([f \in {"speed"} |-> JHuge]))

\* a ClonedVoice with a number out of range in a field it does not name,
\* and an array of one ClonedVoice with an array nested to the recursion
\* limit in such a field
ClonedVoiceHugeBody == JObj(WithOther([k \in {"id", "name"} |-> JStr(1)], JHuge))

ClonedVoicesDeepBody ==
  JArr(<<JObj(WithOther([k \in {"id", "name"} |-> JStr(1)], Nest(RecursionLimit)))>>)

TTSStreamURLBody ==
  JObj([k \in {"href", "method", "contentType", "rel", "description"} |-> JStr(1)])

\* a body the success type of op is read from
SuccessBody(op) ==
  CASE op \in {"get_stock_voices", "get_cloned_voices"} -> JArr(<<>>)
    [] op \in {"clone_voice_from_file", "clone_voice_from_url"} -> ClonedVoiceBody
    [] op = "delete_cloned_voice" -> DeleteClonedVoiceRespBody
    [] op \in {"create_tts_job", "get_tts_job"} -> TTSJobBody
    [] op = "get_audio_stream_url" -> TTSStreamURLBody

\* a body for each shape the decoders tell apart
SmallBodies ==
  {JStr(1), JNum, JArr(<<>>), JArr(<<JHuge>>), Malformed, Trailing(JObj(NoFields)),
   Trailing(JStr(1)), JObj(NoFields),
   JObj([k \in {"error_message", "error_id"} |-> JStr(IF k = "error_id" THEN 2 ELSE 1)]),
   JObj([k \in {"message", "error"} |-> JStr(IF k = "error" THEN 2 ELSE 1)]),
   JObj([k \in ErrKeys |-> JStr(IF k \in {"error_id", "error"} THEN 2 ELSE 1)]),
   JObj(WithOther([k \in {"error_message", "error_id"} |->
                      JStr(IF k = "error_id" THEN 2 ELSE 1)], JArr(<<JHuge>>))),
   JObj(WithOther([k \in {"message", "error"} |-> JStr(IF k = "error" THEN 2 ELSE 1)],
                  Nest(RecursionLimit - 1))),
   ClonedVoiceBody, DeleteClonedVoiceRespBody, TTSJobBody, TTSJobArrayBody,
   TTSJobSeedBody, TTSJobSpeedBody, TTSJobHugeBody, ClonedVoiceHugeBody,
   ClonedVoicesDeepBody, TTSStreamURLBody}

\* body of the responses to relay operations, as a JSON value
RelayBodies == {JStr(1)}

\* the Content-Location header of a response: absent, a value of visible
\* ASCII, or a value HeaderValue::to_str refuses
LocationHeaders == {"absent", "text", "bytes"}

\* the request never got a response (connection failure in send)
NoResponse ==
  [status |-> 0, body |-> Malformed, succ |-> FALSE, chunks |-> <<>>,
   fail |-> "send", location |-> "absent"]

\* responses to a dispatch operation: status, JSON body, whether the body
\* deserializes as the success type, and whether the transport fails
\* while the body is read
DispatchResponses(op, bodies) ==
  {NoResponse} \cup
  {r \in [status : Statuses, body : bodies, succ : BOOLEAN, chunks : {<<>>},
          fail : {"none", "body"}, location : {"absent"}] :
     IF r.succ THEN CanBeSuccess(op, r.body) ELSE CanBeFailure(op, r.body)}

\* responses to a twin pair of relay operations
TwinResponses ==
  {NoResponse} \cup
  [status : {200, 429}, body : {JStr(1)}, succ : {FALSE}, chunks : ChunkSeqs,
   fail : {"none", "body"}, location : {"absent"}]

\* responses to a relay operation: the body arrives as chunks, and the
\* transport either ends the body or fails after the last chunk listed
RelayResponses(op) ==
  {NoResponse} \cup
  {r \in [status : Statuses, body : RelayBodies, succ : {FALSE}, chunks : ChunkSeqs,
          fail : {"none", "body"}, location : LocationHeaders] :
     r.location # "absent" => op = "create_tts_job_write_progress_stream"}

\* results of an operation
NoOutcome == [kind |-> "none", val |-> JNull]

Ok(v) == [kind |-> "Ok", val |-> v]

Err(kind, v) == [kind |-> kind, val |-> v]

\* ------------------------------------------------ configuration (api/mod.rs)
\* most ClientBuilder calls made on one builder
MaxBuilderCalls == 2

BASE_URL == "https://api.play.ht/api"

V2_PATH == "/v2"

USER_ID_HEADER == "X-USER-ID"

CLIENT_USER_AGENT == "milosgajdos/playht_rs"

APPLICATION_JSON == "application/json"

MULTIPART_FORM == "multipart/form-data"

TEXT_EVENT_STREAM == "text/event-stream"

\* http::header constants: their as_str() is the lower-case name
AUTHORIZATION == "authorization"

USER_AGENT == "user-agent"

CONTENT_TYPE == "content-type"

ACCEPT == "accept"

CONTENT_LENGTH == "content-length"

\* Option::unwrap of a Some
unwrap(option) == option[1]

\* header names as a caller may write them; a name with a space in it is
\* not a legal header name
IllegalName == "bad name"

NameTexts ==
  {"Content-Type", "content-type", "Accept", "User-Agent", "Authorization",
   USER_ID_HEADER, IllegalName}

\* header values as a caller may write them; a value with a line feed in
\* it is not a legal header value
IllegalValue == "a\nb"

ValueTexts == {"v1", "v2", IllegalValue}

\* str::parse::<HeaderName>: the name in lower case, or an error
ParseHeaderName(text) ==
  CASE text = IllegalName -> None
    [] text \in {"Content-Type", "content-type", CONTENT_TYPE} -> Some(CONTENT_TYPE)
    [] text \in {"User-Agent", USER_AGENT} -> Some(USER_AGENT)
    [] text \in {"Authorization", AUTHORIZATION} -> Some(AUTHORIZATION)
    [] text \in {"Accept", ACCEPT} -> Some(ACCEPT)
    [] text = USER_ID_HEADER -> Some("x-user-id")
    [] text = CONTENT_LENGTH -> Some(CONTENT_LENGTH)

\* str::parse::<HeaderValue> and HeaderValue::from_str: the value, or an
\* error when it holds a control character
ParseHeaderValue(text) == IF text = IllegalValue THEN None ELSE Some(text)

\* HeaderMap: each name it holds maps to the values under it, in order
HeaderMapNew == [n \in {} |-> <<>>]

\* HeaderMap::insert: the value replaces every value under the name
HeaderMapInsert(map, name, value) ==
  [n \in DOMAIN map \cup {name} |-> IF n = name THEN <<value>> ELSE map[n]]

\* HeaderMap::append: the value is added after the values under the name
HeaderMapAppend(map, name, value) ==
  [n \in DOMAIN map \cup {name} |->
     IF n # name THEN map[n]
     ELSE IF n \in DOMAIN map THEN Append(map[n], value) ELSE <<value>>]

\* a variable of the process environment: not set, set to bytes that are
\* not Unicode, or set to a text
EnvAbsent == [set |-> FALSE, unicode |-> TRUE, text |-> ""]

EnvNotUnicode == [set |-> TRUE, unicode |-> FALSE, text |-> ""]

EnvText(text) == [set |-> TRUE, unicode |-> TRUE, text |-> text]

EnvVars == {EnvAbsent, EnvNotUnicode, EnvText("key"), EnvText(IllegalValue)}

\* std::env::var: Ok of the text, Err when not set or not Unicode
env_var(v) == IF v.set /\ v.unicode THEN Some(v.text) ELSE None

\* A URL text is a sequence of tokens: the scheme and host, "/", "?", the
\* pieces of path segments and of the query, and TooLong for a piece that
\* takes the text over the u32::MAX bytes the indices of a Url can hold
Origin == "https://api.play.ht"

TooLong == "<more than u32::MAX bytes>"

\* the tokens of the constant texts the program formats into URLs
Tokens(text) ==
  CASE text = BASE_URL -> <<Origin, "/", "api">>
    [] text = V2_PATH -> <<"/", "v2">>

\* a segment with one more piece: short pieces that meet are one piece
AddPiece(segment, piece) ==
  IF segment # <<>> /\ segment[Len(segment)] # TooLong /\ piece # TooLong
  THEN [segment EXCEPT ![Len(segment)] = @ \o piece]
  ELSE Append(segment, piece)

RECURSIVE Segments(_, _, _)
\* the parts of a text between its "/" tokens, each a sequence of pieces
Segments(tokens, segment, done) ==
  IF tokens = <<>> THEN Append(done, segment)
  ELSE IF Head(tokens) = "/" THEN Segments(Tail(tokens), <<>>, Append(done, segment))
  ELSE Segments(Tail(tokens), AddPiece(segment, Head(tokens)), done)

\* the path without its last segment
ShortenPath(segments) ==
  IF segments = <<>> THEN <<>> ELSE SubSeq(segments, 1, Len(segments) - 1)

RECURSIVE PathState(_, _)
\* the path state of the URL parser: a ".." segment removes the segment
\* before it, a "." segment is dropped, and either of them at the end of
\* the path leaves the path ending in "/"
PathState(raw, segments) ==
  IF raw = <<>> THEN segments
  ELSE IF Head(raw) = <<"..">>
  THEN PathState(Tail(raw), IF Len(raw) = 1 THEN Append(ShortenPath(segments), <<>>)
                            ELSE ShortenPath(segments))
  ELSE IF Head(raw) = <<".">>
  THEN PathState(Tail(raw), IF Len(raw) = 1 THEN Append(segments, <<>>) ELSE segments)
  ELSE PathState(Tail(raw), Append(segments, Head(raw)))

\* the index of the "?" that starts the query of a text, past the end of
\* a text that has no query
QueryStart(text) ==
  IF \E i \in DOMAIN text : text[i] = "?"
  THEN CHOOSE i \in DOMAIN text :
         text[i] = "?" /\ \A j \in 1 .. i - 1 : text[j] # "?"
  ELSE Len(text) + 1

\* whether a sequence of pieces holds the long piece
Overflows(pieces) == \E i \in DOMAIN pieces : pieces[i] = TooLong

\* str::parse::<Url>: an error for a text without a scheme and host
\* (RelativeUrlWithoutBase), else the Url with its path normalised and its
\* query as written; a text with no path has the path "/".  The length
\* of what is serialized is checked where the path starts and where the
\* query starts (Overflow), and nowhere after the path when no query
\* follows it
ParseUrl(text) ==
  IF text = <<>> \/ Head(text) # Origin THEN None
  ELSE LET start == QueryStart(text)
           parts == Segments(SubSeq(text, 2, start - 1), <<>>, <<>>)
           segments == PathState(Tail(parts), <<>>)
           query == SubSeq(text, start, Len(text))
       IN IF Overflows(Head(parts)) THEN None
          ELSE IF query # <<>> /\ \E i \in DOMAIN segments : Overflows(segments[i])
          THEN None
          ELSE Some([origin |-> <<Origin>> \o Head(parts),
                     path |-> IF segments = <<>> THEN <<<<>>>> ELSE segments,
                     query |-> query])

RECURSIVE PathTokens(_)
\* the tokens of the segments of a path
PathTokens(segments) ==
  IF segments = <<>> THEN <<>>
  ELSE <<"/">> \o Head(segments) \o PathTokens(Tail(segments))

\* Display of a Url, as format!("{}{}", url, ..) takes it
UrlText(url) == url.origin \o PathTokens(url.path) \o url.query

RECURSIVE Joined(_)
\* the tokens of a text as one string
Joined(tokens) == IF tokens = <<>> THEN "" ELSE Head(tokens) \o Joined(Tail(tokens))

\* Url::as_str
as_str(url) == Joined(UrlText(url))

\* a ClientBuilder: state is "new" before it is made, "live" while the
\* caller holds it, "dropped" once a call has consumed it, "panicked"
\* when making it panicked; client, url and headers are its Option fields
NoBuilder ==
  [state |-> "new", client |-> None, url |-> None, headers |-> None,
   ncalls |-> 0, error |-> "none"]

\* the headers ClientBuilder::default collects, <<>> when an unwrap of
\* HeaderValue::from_str panics
CredentialHeader(map, var, name) ==
  IF map = None \/ env_var(var) = None THEN map
  ELSE IF ParseHeaderValue(unwrap(env_var(var))) = None THEN None
  ELSE Some(HeaderMapAppend(unwrap(map), name, unwrap(env_var(var))))

DefaultHeaders(e) ==
  LET h1 == CredentialHeader(Some(HeaderMapNew), e.PLAYHT_SECRET_KEY, AUTHORIZATION)
      h2 == CredentialHeader(h1, e.PLAYHT_USER_ID, unwrap(ParseHeaderName(USER_ID_HEADER)))
  IN  IF h2 = None THEN None
      ELSE Some(HeaderMapAppend(unwrap(h2), USER_AGENT, CLIENT_USER_AGENT))

\* a builder after a panic, and after a call that returned Err and so
\* dropped the builder it had taken by value
Panicked(b) == [NoBuilder EXCEPT !.state = "panicked", !.ncalls = b.ncalls]

Dropped(b, error) ==
  [NoBuilder EXCEPT !.state = "dropped", !.ncalls = b.ncalls + 1, !.error = error]

\* ClientBuilder::default
default(e) ==
  IF DefaultHeaders(e) = None THEN Panicked(NoBuilder)
  ELSE [state |-> "live", client |-> Some("default"),
        url |-> ParseUrl(Tokens(BASE_URL) \o Tokens(V2_PATH)), headers |-> DefaultHeaders(e),
        ncalls |-> 0, error |-> "none"]

\* variant of header: the value is appended under the name
header_append(b, name, value) ==
  IF ParseHeaderName(name) = None THEN Dropped(b, "InvalidHeaderName")
  ELSE IF ParseHeaderValue(value) = None THEN Dropped(b, "InvalidHeaderValue")
  ELSE IF b.headers = None THEN Panicked(b)
  ELSE [b EXCEPT !.ncalls = @ + 1,
                 !.headers = Some(HeaderMapAppend(unwrap(@),
                                    unwrap(ParseHeaderName(name)), value))]

\* variant of header: an illegal value is stored as it was written
header_unchecked(b, name, value) ==
  IF ParseHeaderName(name) = None THEN Dropped(b, "InvalidHeaderName")
  ELSE IF b.headers = None THEN Panicked(b)
  ELSE [b EXCEPT !.ncalls = @ + 1,
                 !.headers = Some(HeaderMapInsert(unwrap(@),
                                    unwrap(ParseHeaderName(name)), value))]

\* ClientBuilder::header
header(b, name, value) ==
  IF ParseHeaderName(name) = None THEN Dropped(b, "InvalidHeaderName")
  ELSE IF ParseHeaderValue(value) = None THEN Dropped(b, "InvalidHeaderValue")
  ELSE IF b.headers = None THEN Panicked(b)
  ELSE [b EXCEPT !.ncalls = @ + 1,
                 !.headers = Some(HeaderMapInsert(unwrap(@),
                                    unwrap(ParseHeaderName(name)), value))]

\* the texts a caller may append, as tokens
PathTexts ==
  {<<"/", "tts">>, <<"/", "stream">>, <<"/", ".">>, <<"/", "..", "/", "v1">>, <<TooLong>>,
   <<"?", "q">>}

\* variant of path: the text replaces the path of the URL
path_replace(b, text) ==
  IF b.url = None THEN Panicked(b)
  ELSE IF ParseUrl(unwrap(b.url).origin \o text) = None THEN Dropped(b, "UrlParseError")
  ELSE [b EXCEPT !.ncalls = @ + 1, !.url = ParseUrl(unwrap(b.url).origin \o text)]

\* ClientBuilder::path
path(b, text) ==
  IF b.url = None THEN Panicked(b)
  ELSE IF ParseUrl(UrlText(unwrap(b.url)) \o text) = None THEN Dropped(b, "UrlParseError")
  ELSE [b EXCEPT !.ncalls = @ + 1, !.url = ParseUrl(UrlText(unwrap(b.url)) \o text)]

\* ClientBuilder::req_client
req_client(b, transport) == [b EXCEPT !.ncalls = @ + 1, !.client = Some(transport)]

\* the result of ClientBuilder::build
NoClient == [kind |-> "none", url |-> None, client |-> None, headers |-> None]

BuildPanic == [NoClient EXCEPT !.kind = "panic"]

ClientBuildError == [NoClient EXCEPT !.kind = "ClientBuildError"]

\* variant of build: a builder without a URL yields a Client without one
build_unchecked(b) ==
  IF b.client = None \/ b.headers = None THEN BuildPanic
  ELSE [kind |-> "Ok", url |-> b.url, client |-> b.client, headers |-> b.headers]

\* ClientBuilder::build
build(b) ==
  IF b.url = None THEN ClientBuildError
  ELSE IF b.client = None \/ b.headers = None THEN BuildPanic
  ELSE [kind |-> "Ok", url |-> b.url, client |-> b.client, headers |-> b.headers]

\* Client::new
new(e) ==
  IF default(e).state = "panicked" THEN BuildPanic
  ELSE IF build(default(e)).kind # "Ok" THEN BuildPanic
  ELSE build(default(e))

\* the environment in which the clients of the call specifications are made
CallEnv == [PLAYHT_SECRET_KEY |-> EnvText("key"), PLAYHT_USER_ID |-> EnvText("user")]

\* ------------------------------------------------ requests (api/mod.rs)
\* most optional fields of a request record that are set at once, the
\* fields set by Default apart
MaxSetFields == 1

VOICES_PATH == "/voices"

CLONED_VOICES_PATH == "/cloned-voices/"

CLONED_VOICES_INSTANT_PATH == "/cloned-voices/instant"

TTS_JOB_PATH == "/tts"

TTS_STREAM_PATH == "/tts/stream"

\* the fields of TTSJobReq and of TTSStreamReq, all of them Option
TTSJobReqFields ==
  {"text", "voice", "quality", "output_format", "voice_engine", "emotion",
   "speed", "temperature", "sample_rate", "seed", "voice_guidance",
   "style_guidance"}

TTSStreamReqFields == TTSJobReqFields \cup {"text_guidance"}

\* the fields that serialize as JSON strings, and the f32 fields
StringFields == {"text", "voice", "quality", "output_format", "voice_engine", "emotion"}

FloatFields == {"speed", "temperature", "voice_guidance", "style_guidance", "text_guidance"}

\* the fields Default sets
DefaultFields == {"quality", "output_format", "voice_engine", "emotion"}

\* a request record with the fields in set set, those in nan to f32::NAN
Assign(fields, set, nan) ==
  [f \in fields |-> IF f \notin set THEN None
                    ELSE IF f \in nan THEN Some("nan") ELSE Some("value")]

\* TTSJobReq::default() and TTSStreamReq::default()
TTSJobReqDefault == Assign(TTSJobReqFields, DefaultFields, {})

TTSStreamReqDefault == Assign(TTSStreamReqFields, DefaultFields, {})

\* the request records a caller may pass
Assignments(fields) ==
  {Assign(fields, DefaultFields, {})} \cup
  UNION {{Assign(fields, set, nan) : nan \in SUBSET (set \cap FloatFields)} :
           set \in {s \in SUBSET fields : Cardinality(s) <= MaxSetFields}}

\* serde_json of one field value: a string, a number, or null for a
\* float that is not finite
to_value(f, v) == IF v = "nan" THEN JNull ELSE IF f \in StringFields THEN JStr(1) ELSE JNum

\* #[derive(Serialize)] of TTSJobReq: skip_serializing_if = "Option::is_none"
\* on every field
SerializeTTSJobReq(req) ==
  JObj([f \in {g \in DOMAIN req : req[g] # None} |-> to_value(f, unwrap(req[f]))])

\* #[derive(Serialize)] of TTSStreamReq: every field is written, None as null
SerializeTTSStreamReq(req) ==
  JObj([f \in DOMAIN req |-> IF req[f] = None THEN JNull ELSE to_value(f, unwrap(req[f]))])

\* #[derive(Serialize)] of CloneVoiceURLRequest and DeleteClonedVoiceRequest
SerializeCloneVoiceURLRequest == JObj([f \in {"sample_file_url", "voice_name"} |-> JStr(1)])

SerializeDeleteClonedVoiceRequest == JObj([f \in {"voice_id"} |-> JStr(1)])

\* the body of a multipart form
MultipartBody == [kind |-> "multipart", str |-> 0, fields |-> NoFields]

JobReqOps == {"create_tts_job", "create_tts_job_write_progress_stream"}

StreamReqOps == {"write_audio_stream", "get_audio_stream_url", "stream_audio"}

\* the two functions a caller uses to send a request of their own; a
\* call of this kind is build_request followed by send_request
RawOps == {"send_request"}

\* a body given as text
TextBody == [kind |-> "text", str |-> 1, fields |-> NoFields]

\* the method and body a caller may give build_request
RawArgs == [method : {"GET", "PUT"}, body : {TextBody}]

\* the request record a call of op is given when none is chosen
DefaultArg(op) ==
  IF op \in RawOps THEN [method |-> "PUT", body |-> TextBody]
  ELSE IF op \in JobReqOps THEN TTSJobReqDefault
  ELSE IF op \in StreamReqOps THEN TTSStreamReqDefault
  ELSE NoFields

\* the request records a call of op may be given
Args(op) ==
  IF op \in RawOps THEN RawArgs
  ELSE IF op \in JobReqOps THEN Assignments(TTSJobReqFields)
  ELSE IF op \in StreamReqOps THEN Assignments(TTSStreamReqFields)
  ELSE {NoFields}

\* serde_json::to_string(req) and .body(body), or .multipart(form)
RequestBody(op, arg) ==
  IF op \in RawOps THEN Some(arg.body)
  ELSE IF op \in JobReqOps THEN Some(SerializeTTSJobReq(arg))
  ELSE IF op \in StreamReqOps THEN Some(SerializeTTSStreamReq(arg))
  ELSE IF op = "clone_voice_from_url" THEN Some(SerializeCloneVoiceURLRequest)
  ELSE IF op = "delete_cloned_voice" THEN Some(SerializeDeleteClonedVoiceRequest)
  ELSE IF op = "clone_voice_from_file" THEN Some(MultipartBody)
  ELSE None

\* variant of RequestBuilder::headers: the map is left out
rb_headers_none(headers, map) == headers

\* RequestBuilder::headers: every name of the map replaces that name in
\* the request
rb_headers(headers, map) ==
  [n \in DOMAIN headers \cup DOMAIN map |-> IF n \in DOMAIN map THEN map[n] ELSE headers[n]]

\* RequestBuilder::header: the value is appended under the name
rb_header(headers, name, value) == HeaderMapAppend(headers, name, value)

RECURSIVE rb_header_values(_, _, _)
\* RequestBuilder::header for each value a map holds under a name
rb_header_values(headers, name, values) ==
  IF values = <<>> THEN headers
  ELSE rb_header_values(rb_header(headers, name, Head(values)), name, Tail(values))

RECURSIVE rb_header_each(_, _)
\* for (name, value) in &self.headers { req_builder = req_builder.header(name, value); }
rb_header_each(headers, map) ==
  IF DOMAIN map = {} THEN headers
  ELSE LET name == CHOOSE n \in DOMAIN map : TRUE
       IN rb_header_each(rb_header_values(headers, name, map[name]),
                         [n \in DOMAIN map \ {name} |-> map[n]])

\* the Content-Type an operation gives a multipart form
MultipartType == "multipart/form-data; boundary=b"

\* RequestBuilder::multipart: the Content-Type of the form and, its
\* length being known, its Content-Length are appended as headers
rb_multipart(headers) ==
  rb_header(rb_header(headers, CONTENT_TYPE, MultipartType), CONTENT_LENGTH, "length")

\* the headers of the request an operation builds from the headers of
\* the Client
RequestHeaders(op, map) ==
  LET h == rb_headers(HeaderMapNew, map)
  IN CASE op \in {"get_stock_voices", "get_cloned_voices", "get_tts_job",
                  "write_audio_stream", "stream_audio"} ->
            rb_header(h, CONTENT_TYPE, APPLICATION_JSON)
       [] op = "clone_voice_from_file" ->
            rb_multipart(rb_header(rb_header(h, ACCEPT, APPLICATION_JSON),
                                   CONTENT_TYPE, MultipartType))
       [] op = "clone_voice_from_url" -> rb_header(h, ACCEPT, APPLICATION_JSON)
       [] op \in {"delete_cloned_voice", "create_tts_job", "get_audio_stream_url"} ->
            rb_header(rb_header(h, CONTENT_TYPE, APPLICATION_JSON), ACCEPT, APPLICATION_JSON)
       [] op = "create_tts_job_write_progress_stream" ->
            rb_header(rb_header(h, CONTENT_TYPE, APPLICATION_JSON), ACCEPT, TEXT_EVENT_STREAM)
       [] op \in {"write_tts_job_progress_stream", "stream_tts_job_progress"} ->
            rb_header(h, ACCEPT, TEXT_EVENT_STREAM)
       [] op = "write_tts_job_audio_stream" -> h
       [] op \in RawOps -> rb_header_each(HeaderMapNew, map)

\* reqwest::Client::execute: a default header of the transport (Accept:
\* */*) is inserted under a name the request does not hold
ExecuteHeaders(headers) ==
  IF ACCEPT \in DOMAIN headers THEN headers ELSE HeaderMapInsert(headers, ACCEPT, "*/*")

\* the HTTP method and the path of the request of an operation
RequestMethod(op, arg) ==
  IF op \in RawOps THEN arg.method
  ELSE IF op \in {"get_stock_voices", "get_cloned_voices", "get_tts_job",
             "write_tts_job_progress_stream", "stream_tts_job_progress",
             "write_tts_job_audio_stream"} THEN "GET"
  ELSE IF op = "delete_cloned_voice" THEN "DELETE"
  ELSE "POST"

RequestPath(op) ==
  CASE op = "get_stock_voices" -> VOICES_PATH
    [] op \in {"get_cloned_voices", "clone_voice_from_url", "delete_cloned_voice"} ->
         CLONED_VOICES_PATH
    [] op = "clone_voice_from_file" -> CLONED_VOICES_INSTANT_PATH
    [] op \in JobReqOps -> TTS_JOB_PATH
    [] op \in {"get_tts_job", "write_tts_job_progress_stream",
               "stream_tts_job_progress", "write_tts_job_audio_stream"} ->
         TTS_JOB_PATH \o "/" \o "id"
    [] op \in StreamReqOps -> TTS_STREAM_PATH
    [] op \in RawOps -> ""

\* no request
NoRequest == [method |-> "", url |-> "", headers |-> HeaderMapNew, body |-> None]

\* the request a call of op with argument arg builds from the Client cfg
BuildRequest(op, arg, cfg) ==
  [method |-> RequestMethod(op, arg),
   url |-> as_str(unwrap(cfg.url)) \o RequestPath(op),
   headers |-> RequestHeaders(op, unwrap(cfg.headers)),
   body |-> RequestBody(op, arg)]

\* the request a call of op with argument arg sends through the Client cfg
Request(op, arg, cfg) ==
  [BuildRequest(op, arg, cfg) EXCEPT !.headers = ExecuteHeaders(@)]

\* a call of op as it starts
NewCall(op, resp, file_ok, mime_ok, sink_fail_at) ==
  [op |-> op, pc |-> "start", resp |-> resp, file_ok |-> file_ok,
   mime_ok |-> mime_ok, sink_fail_at |-> sink_fail_at, sent |-> 0,
   outcome |-> NoOutcome, decoders |-> {}, sink |-> <<>>, next |-> 1,
   written |-> 0,
   items |-> <<>>, last |-> "none", arg |-> DefaultArg(op), req |-> NoRequest]

\* the writes that may fail in a call of op: none (0), or the write of
\* chunk k of the body
SinkFailures(op, resp) == IF op \in PushOps THEN 0 .. Len(resp.chunks) ELSE {0}

\* whether reading the sample file, and parsing its media type, may fail
FileFailures(op) == IF op = "clone_voice_from_file" THEN BOOLEAN ELSE {TRUE}

\* the responses to a request a caller built: send_request looks neither
\* at the status nor at the body
RawResponses ==
  {NoResponse} \cup
  [status : Statuses, body : {JStr(1)}, succ : {FALSE}, chunks : {<<>>},
   fail : {"none"}, location : {"absent"}]

\* the responses to a call of op
Responses(op, bodies) ==
  IF op \in DispatchOps THEN DispatchResponses(op, bodies)
  ELSE IF op \in RawOps THEN RawResponses
  ELSE RelayResponses(op)

\* calls[c] is the state of call c: its arguments and environment (op,
\* resp, file_ok, mime_ok, sink_fail_at, arg), its position pc, the number
\* of HTTP requests it has sent, the request it sent, its result, the
\* decoders applied to the body, the bytes written to its writer, the
\* index of the next chunk of the body, the number of bytes of that chunk
\* already written, and the items its stream has yielded so far.  env
\* is the process environment, builder the
\* ClientBuilder the caller holds, client the Client that was built, and
\* history the calls made on the builder with their arguments
VARIABLES calls, env, builder, client, history

vars == <<calls, env, builder, client, history>>

\* a call made on the builder, and whether it returned Ok
BuilderCall(op, name, value, b) ==
  [op |-> op, name |-> name, value |-> value, segment |-> <<>>,
   ok |-> b.state = "live"]

\* ClientBuilder::default() (and ClientBuilder::new(), which wraps it)
Default ==
  /\ builder.state = "new"
  /\ client.kind = "none"
  /\ builder' = default(env)
  /\ UNCHANGED <<calls, env, client, history>>

\* builder.header(name, value)
Header ==
  /\ builder.state = "live"
  /\ builder.ncalls < MaxBuilderCalls
  /\ \E name \in NameTexts, value \in ValueTexts :
       /\ builder' = header(builder, name, value)
       /\ history' = Append(history, BuilderCall("header", name, value, builder'))
  /\ UNCHANGED <<calls, env, client>>

\* builder.path(text)
Path ==
  /\ builder.state = "live"
  /\ builder.ncalls < MaxBuilderCalls
  /\ \E text \in PathTexts :
       /\ builder' = path(builder, text)
       /\ history' = Append(history, [BuilderCall("path", "", "", builder')
                                         EXCEPT !.segment = text])
  /\ UNCHANGED <<calls, env, client>>

\* builder.req_client(transport)
ReqClient ==
  /\ builder.state = "live"
  /\ builder.ncalls < MaxBuilderCalls
  /\ builder' = req_client(builder, "custom")
  /\ history' = Append(history, BuilderCall("req_client", "custom", "", builder'))
  /\ UNCHANGED <<calls, env, client>>

\* builder.build(): the builder is consumed
Build ==
  /\ builder.state = "live"
  /\ client' = build(builder)
  /\ builder' = [builder EXCEPT !.state = "built"]
  /\ UNCHANGED <<calls, env, history>>

\* Client::new()
New ==
  /\ builder.state = "new"
  /\ client.kind = "none"
  /\ client' = new(env)
  /\ UNCHANGED <<calls, env, builder, history>>

\* marker values carried by Ok and Err
Unit == [variant |-> "unit", a |-> 0, b |-> 0]

Stream == [variant |-> "stream", a |-> 0, b |-> 0]

Built == [variant |-> "request", a |-> 0, b |-> 0]

Response(status) == [variant |-> "response", a |-> status, b |-> 0]

\* the Option<String> read from the Content-Location header:
\* headers().get(..).and_then(|hv| hv.to_str().ok()..) is Some for a value
\* of visible ASCII, None for an absent header and for any other value
ContentLocation(value) == [variant |-> "location", a |-> IF value = "text" THEN 1 ELSE 0, b |-> 0]

\* variant of BeforeSend: the parts are not looked at before the request
\* is sent
BeforeSendUnchecked(call) == NoOutcome

\* clone_voice_from_file builds the multipart parts before anything is
\* sent: std::fs::read of the sample file, then mime_str of its type
BeforeSend(call) ==
  IF call.op = "clone_voice_from_file" /\ ~call.file_ok THEN Err("IoError", Unit)
  ELSE IF call.op = "clone_voice_from_file" /\ ~call.mime_ok THEN Err("MimeError", Unit)
  ELSE NoOutcome

\* variant of AfterSend: a request whose send failed is sent again
AfterSendRetry(call) ==
  IF call.resp.fail = "send" THEN "start"
  ELSE IF call.op \in PullOps THEN "streaming"
  ELSE "responded"

\* position of the call after send().await: the ? operator returns a
\* transport error, a pull operation returns the stream at once
AfterSend(call) ==
  IF call.resp.fail = "send" THEN "done"
  ELSE IF call.op \in PullOps THEN "streaming"
  ELSE "responded"

\* RequestBuilder::send and the ? on its result
SendRequest(call) ==
  [call EXCEPT !.sent = @ + 1,
               !.req = Request(call.op, call.arg, client),
               !.pc = AfterSend(call),
               !.outcome = IF call.resp.fail = "send" THEN Err("TransportError", Unit)
                           ELSE IF call.op \in PullOps THEN Ok(Stream)
                           ELSE @]

\* variant of self_after: the operation keeps the headers of its request
\* in the Client
self_after_store(cfg, call) ==
  IF BeforeSend(call) # NoOutcome THEN cfg
  ELSE [cfg EXCEPT !.headers = Some(RequestHeaders(call.op, unwrap(cfg.headers)))]

\* the Client after a step of an operation: every operation takes &self
\* and the Client has no interior mutability of its own
self_after(cfg, call) == cfg

\* first step of every operation
Send(c) ==
  /\ calls[c].pc = "start"
  /\ calls' = [calls EXCEPT ![c] =
                 IF BeforeSend(@) # NoOutcome
                 THEN [@ EXCEPT !.pc = "done", !.outcome = BeforeSend(calls[c])]
                 ELSE SendRequest(@)]
  /\ client' = self_after(client, calls[c])
  /\ UNCHANGED <<env, builder, history>>

\* Client::build_request: the Request is built from the method, the URL
\* and the headers of the Client and the body, and nothing is sent
build_request(c) ==
  /\ calls[c].op \in RawOps
  /\ calls[c].pc = "start"
  /\ calls' = [calls EXCEPT ![c] =
                 [@ EXCEPT !.pc = "built",
                           !.req = BuildRequest(calls[c].op, calls[c].arg, client),
                           !.outcome = Ok(Built)]]
  /\ UNCHANGED <<env, builder, client, history>>

\* Client::send_request: the Request is executed, and the Response is
\* returned whatever its status; the ? operator returns a transport error
send_request(c) ==
  /\ calls[c].op \in RawOps
  /\ calls[c].pc = "built"
  /\ calls' = [calls EXCEPT ![c] =
                 [@ EXCEPT !.pc = "done",
                           !.sent = @ + 1,
                           !.req = [@ EXCEPT !.headers = ExecuteHeaders(@)],
                           !.outcome = IF calls[c].resp.fail = "send"
                                       THEN Err("TransportError", Unit)
                                       ELSE Ok(Response(calls[c].resp.status))]]
  /\ UNCHANGED <<env, builder, client, history>>

\* Response::json::<T>: read the whole body, then deserialize it as the
\* success type of the operation
JsonSuccess(resp) ==
  IF resp.fail = "body" THEN Err("TransportError", Unit)
  ELSE IF resp.succ THEN Ok(resp.body)
  ELSE Err("DecodeError", SyntaxError)

\* Response::json::<APIError> and Err(Box::new(Error::APIError(..)))
JsonError(resp) ==
  IF resp.fail = "body" THEN Err("TransportError", Unit)
  ELSE IF from_slice(resp.body).variant = "DecodeError"
       THEN Err("DecodeError", from_slice(resp.body))
  ELSE Err("APIError", from_slice(resp.body))

\* variant of Classify: the body is tried as an error envelope first and
\* the status is consulted only when that fails
ClassifyByShape(resp) ==
  IF from_slice(resp.body).variant # "DecodeError" THEN "error"
  ELSE IF is_success(resp.status) THEN "success" ELSE "error"

\* if resp.status().is_success() { .. return Ok(..) } .. Err(..)
Classify(resp) == IF is_success(resp.status) THEN "success" ELSE "error"

\* the tail of every dispatch operation
Dispatch(c) ==
  /\ calls[c].pc = "responded"
  /\ calls[c].op \in DispatchOps
  /\ calls' = [calls EXCEPT ![c] =
                 [@ EXCEPT !.pc = "done",
                           !.decoders = IF calls[c].resp.fail = "body" THEN {}
                                        ELSE {Classify(calls[c].resp)},
                           !.outcome = IF Classify(calls[c].resp) = "success"
                                       THEN JsonSuccess(calls[c].resp)
                                       ELSE JsonError(calls[c].resp)]]
  /\ UNCHANGED <<env, builder, client, history>>

\* value a push operation returns after the body has ended
PushResult(call) ==
  IF call.op = "create_tts_job_write_progress_stream"
  THEN Ok(ContentLocation(call.resp.location))
  ELSE Ok(Unit)

\* variant of EndOfBody: the loop is left on a transport error as it is
\* on the end of the body (while let Ok(Some(chunk)) = ..)
EndOfBodySwallow(call) == PushResult(call)

\* resp.chunk().await? once every chunk has been taken: the transport
\* error is returned by ?, the end of the body leaves the loop
EndOfBody(call) ==
  IF call.resp.fail = "body" THEN Err("TransportError", Unit) ELSE PushResult(call)

\* the part of the chunk taken from the body that write_all has still to
\* write
buf(call) ==
  SubSeq(call.resp.chunks[call.next], call.written + 1, Len(call.resp.chunks[call.next]))

\* variant of write_all: AsyncWriteExt::write, a single write after which
\* the loop goes on, whatever part of the chunk the writer took
write_once(call, n) ==
  [call EXCEPT !.sink = @ \o SubSeq(buf(call), 1, n),
               !.next = @ + 1, !.written = 0, !.pc = "responded"]

\* one poll_write of AsyncWriteExt::write_all on a writer that takes n
\* bytes: write_all returns once nothing is left of the chunk, and the
\* loop goes back to resp.chunk()
write_all(call, n) ==
  IF n = Len(buf(call))
  THEN [call EXCEPT !.sink = @ \o buf(call),
                    !.next = @ + 1, !.written = 0, !.pc = "responded"]
  ELSE [call EXCEPT !.sink = @ \o SubSeq(buf(call), 1, n), !.written = @ + n]

\* variant of write_all_failed: the error of the write is dropped and the
\* loop goes on with the next chunk
write_all_skipped(call) ==
  [call EXCEPT !.next = @ + 1, !.written = 0, !.pc = "responded"]

\* w.write_all(&chunk).await? on a writer whose poll_write fails: the ?
\* operator returns the error, and the writer keeps what it took before
write_all_failed(call) ==
  [call EXCEPT !.pc = "done", !.outcome = Err("IoError", Unit)]

\* resp.chunk().await? of  while let Some(chunk) = resp.chunk().await? { .. }
\* the next chunk of the body is taken, or the loop is left
Chunk(c) ==
  LET call == calls[c]
  IN /\ call.pc = "responded"
     /\ call.op \in PushOps
     /\ IF call.next <= Len(call.resp.chunks)
        THEN calls' = [calls EXCEPT ![c] = [@ EXCEPT !.pc = "writing", !.written = 0]]
        ELSE calls' = [calls EXCEPT ![c] =
                        [@ EXCEPT !.pc = "done", !.outcome = EndOfBody(call)]]
     /\ UNCHANGED <<env, builder, client, history>>

\* w.write_all(&chunk).await? of the same loop, one poll_write at a time:
\* the writer takes some of the bytes left, and the task may be suspended
\* before the next poll_write; the write that fails does so before the
\* writer has taken the whole chunk
WriteAll(c) ==
  LET call == calls[c]
  IN /\ call.pc = "writing"
     /\ \/ \E n \in 1 .. Len(buf(call)) :
             /\ call.sink_fail_at = call.next => n < Len(buf(call))
             /\ calls' = [calls EXCEPT ![c] = write_all(@, n)]
        \/ /\ call.sink_fail_at = call.next
           /\ calls' = [calls EXCEPT ![c] = write_all_failed(@)]
     /\ UNCHANGED <<env, builder, client, history>>

\* one step of the loop that relays the body to the writer
WriteChunk(c) == Chunk(c) \/ WriteAll(c)

\* variant of poll_next: a stream that starts over when it is polled
\* after its end
poll_next_restart(call) ==
  IF call.next <= Len(call.resp.chunks)
  THEN [call EXCEPT !.items = Append(@, call.resp.chunks[call.next]),
                    !.next = @ + 1, !.last = "item"]
  ELSE IF call.resp.fail = "body" /\ call.last \notin {"err", "end"}
  THEN [call EXCEPT !.last = "err"]
  ELSE IF call.last = "end" /\ Len(call.items) = Len(call.resp.chunks)
  THEN [call EXCEPT !.next = 1]
  ELSE [call EXCEPT !.last = "end"]

\* Stream::poll_next on the stream returned by bytes_stream(): the next
\* chunk, then the transport error if there is one, then the end
poll_next(call) ==
  IF call.next <= Len(call.resp.chunks)
  THEN [call EXCEPT !.items = Append(@, call.resp.chunks[call.next]),
                    !.next = @ + 1, !.last = "item"]
  ELSE IF call.resp.fail = "body" /\ call.last \notin {"err", "end"}
  THEN [call EXCEPT !.last = "err"]
  ELSE [call EXCEPT !.last = "end"]

\* the consumer takes the next item of the stream
PollNext(c) ==
  /\ calls[c].pc = "streaming"
  /\ calls' = [calls EXCEPT ![c] = poll_next(@)]
  /\ UNCHANGED <<env, builder, client, history>>

\* ---- the operations of Client
get_stock_voices(c) == calls[c].op = "get_stock_voices" /\ (Send(c) \/ Dispatch(c))

get_cloned_voices(c) == calls[c].op = "get_cloned_voices" /\ (Send(c) \/ Dispatch(c))

clone_voice_from_file(c) == calls[c].op = "clone_voice_from_file" /\ (Send(c) \/ Dispatch(c))

clone_voice_from_url(c) == calls[c].op = "clone_voice_from_url" /\ (Send(c) \/ Dispatch(c))

delete_cloned_voice(c) == calls[c].op = "delete_cloned_voice" /\ (Send(c) \/ Dispatch(c))

create_tts_job(c) == calls[c].op = "create_tts_job" /\ (Send(c) \/ Dispatch(c))

get_tts_job(c) == calls[c].op = "get_tts_job" /\ (Send(c) \/ Dispatch(c))

get_audio_stream_url(c) == calls[c].op = "get_audio_stream_url" /\ (Send(c) \/ Dispatch(c))

create_tts_job_write_progress_stream(c) ==
  calls[c].op = "create_tts_job_write_progress_stream" /\ (Send(c) \/ WriteChunk(c))

write_tts_job_progress_stream(c) ==
  calls[c].op = "write_tts_job_progress_stream" /\ (Send(c) \/ WriteChunk(c))

write_tts_job_audio_stream(c) ==
  calls[c].op = "write_tts_job_audio_stream" /\ (Send(c) \/ WriteChunk(c))

write_audio_stream(c) == calls[c].op = "write_audio_stream" /\ (Send(c) \/ WriteChunk(c))

stream_tts_job_progress(c) ==
  calls[c].op = "stream_tts_job_progress" /\ (Send(c) \/ PollNext(c))

stream_audio(c) == calls[c].op = "stream_audio" /\ (Send(c) \/ PollNext(c))

\* ---- specifications
\* the Client of the calls is the one Client::new() makes in environment e
ClientOf(e) ==
  /\ env = e
  /\ builder = NoBuilder
  /\ client = new(e)
  /\ history = <<>>

\* one call of an operation among ops, with any response to it
InitWith(ops, bodies) ==
  \E op \in ops : \E r \in Responses(op, bodies) :
    \E f \in FileFailures(op), m \in FileFailures(op), k \in SinkFailures(op, r) :
      /\ calls = [c \in {1} |-> NewCall(op, r, f, m, k)]
      /\ ClientOf(CallEnv)

Init == InitWith(DispatchOps \cup PushOps \cup PullOps \cup RawOps, SmallBodies)

NextDispatch ==
  \E c \in DOMAIN calls :
    \/ get_stock_voices(c)
    \/ get_cloned_voices(c)
    \/ clone_voice_from_file(c)
    \/ clone_voice_from_url(c)
    \/ delete_cloned_voice(c)
    \/ create_tts_job(c)
    \/ get_tts_job(c)
    \/ get_audio_stream_url(c)

NextPush ==
  \E c \in DOMAIN calls :
    \/ create_tts_job_write_progress_stream(c)
    \/ write_tts_job_audio_stream(c)

NextTwins ==
  \E c \in DOMAIN calls :
    \/ write_tts_job_progress_stream(c)
    \/ write_audio_stream(c)
    \/ stream_tts_job_progress(c)
    \/ stream_audio(c)

NextRaw == \E c \in DOMAIN calls : build_request(c) \/ send_request(c)

Next == NextDispatch \/ NextPush \/ NextTwins \/ NextRaw

Spec == Init /\ [][Next]_vars

\* one call of get_stock_voices or delete_cloned_voice, with every JSON
\* value as the body of the response
InitDecode ==
  InitWith({"get_stock_voices", "delete_cloned_voice"},
           JsonValues \cup TrailingBodies \cup {Malformed})

NextDecode == \E c \in DOMAIN calls : get_stock_voices(c) \/ delete_cloned_voice(c)

SpecDecode == InitDecode /\ [][NextDecode]_vars

\* a push operation and the pull operation that sends the same request,
\* each given the same response
Twins ==
  {<<"write_tts_job_progress_stream", "stream_tts_job_progress">>,
   <<"write_audio_stream", "stream_audio">>}

InitTwins ==
  \E t \in Twins : \E r \in TwinResponses : \E k \in SinkFailures(t[1], r) :
    /\ calls = [c \in {1, 2} |->
                  IF c = 1 THEN NewCall(t[1], r, TRUE, TRUE, k)
                  ELSE NewCall(t[2], r, TRUE, TRUE, 0)]
    /\ ClientOf(CallEnv)

SpecTwins == InitTwins /\ [][NextTwins]_vars

\* a builder is made in any environment, configured by a few calls and
\* built, or Client::new() is called
Environments == [PLAYHT_SECRET_KEY : EnvVars, PLAYHT_USER_ID : EnvVars]

NoCalls == [c \in {} |-> NewCall("get_stock_voices", NoResponse, TRUE, TRUE, 0)]

InitBuild ==
  /\ env \in Environments
  /\ builder = NoBuilder
  /\ client = NoClient
  /\ history = <<>>
  /\ calls = NoCalls

NextBuild == Default \/ Header \/ Path \/ ReqClient \/ Build \/ New

SpecBuild == InitBuild /\ [][NextBuild]_vars

\* one call of any operation on a Client built in any environment, after
\* no call or one header call on its builder; the response is a success
RequestResponse(op) ==
  IF op \in DispatchOps
  THEN [status |-> 200, body |-> SuccessBody(op), succ |-> TRUE, chunks |-> <<>>,
        fail |-> "none", location |-> "absent"]
  ELSE [status |-> 200, body |-> JStr(1), succ |-> FALSE, chunks |-> <<<<0>>>>,
        fail |-> "none", location |-> "absent"]

\* the builders that can be built, each with the calls made on it
Builders(e) ==
  {x \in {[b |-> default(e), h |-> <<>>]} \cup
         {[b |-> header(default(e), n, v),
           h |-> <<BuilderCall("header", n, v, header(default(e), n, v))>>] :
            n \in NameTexts, v \in ValueTexts} :
     x.b.state = "live"}

InitRequest ==
  \E e \in Environments : \E x \in Builders(e) :
    \E op \in DispatchOps \cup PushOps \cup PullOps \cup RawOps : \E arg \in Args(op) :
      /\ env = e
      /\ builder = [x.b EXCEPT !.state = "built"]
      /\ client = build(x.b)
      /\ history = x.h
      /\ calls = [c \in {1} |->
                    [NewCall(op, RequestResponse(op), TRUE, TRUE, 0) EXCEPT !.arg = arg]]

SpecRequest == InitRequest /\ [][Next]_vars

\* two calls on one Client, their steps interleaved in any order
ConcOps == {"create_tts_job", "write_audio_stream", "stream_audio", "send_request"}

ConcResponses ==
  {NoResponse} \cup
  [status : {200, 429}, body : {JStr(1)}, succ : {FALSE},
   chunks : {<<>>, <<<<0>>, <<1>>>>}, fail : {"none", "body"}, location : {"absent"}]

ConcCalls ==
  UNION {{NewCall(op, r, TRUE, TRUE, k) :
            k \in (IF op \in PushOps THEN 0 .. Len(r.chunks) ELSE {0})} :
           op \in ConcOps, r \in ConcResponses}

InitConc ==
  /\ calls \in [{1, 2} -> ConcCalls]
  /\ ClientOf(CallEnv)

NextConc ==
  \E c \in DOMAIN calls :
    \/ create_tts_job(c)
    \/ write_audio_stream(c)
    \/ stream_audio(c)
    \/ build_request(c)
    \/ send_request(c)

SpecConc == InitConc /\ [][NextConc]_vars

\* ------------------------------------------------------------ claims
\* the request of call was sent and its response arrived whole
Completed(call) == call.sent = 1 /\ call.resp.fail = "none"

\* C1: a completed dispatch operation ends in Success or in Failure, and
\* the status class alone chooses which: with a 2xx status the body is
\* decoded as the success type only, and a body valid for that type gives
\* Ok of it; with any other status the body is decoded as the error
\* envelope only, and the call fails with what that decoding gives
C1_ClassifiedByStatus ==
  \A c \in DOMAIN calls :
    LET call == calls[c]
    IN (call.op \in DispatchOps /\ call.pc = "done" /\ Completed(call)) =>
         /\ call.outcome.kind \in {"Ok", "APIError", "DecodeError"}
         /\ (200 <= call.resp.status /\ call.resp.status < 300) =>
              /\ call.decoders = {"success"}
              /\ call.outcome.kind # "APIError"
              /\ call.resp.succ => call.outcome = Ok(call.resp.body)
         /\ ~(200 <= call.resp.status /\ call.resp.status < 300) =>
              /\ call.decoders = {"error"}
              /\ call.outcome.kind \in {"APIError", "DecodeError"}
              /\ call.outcome.val = from_slice(call.resp.body)
         /\ (call.resp.status = 429 /\ call.resp.body.kind = "string") =>
              call.outcome = Err("APIError", RateLimit(call.resp.body.str))

\* a 201 response whose body is valid for the success type and also has
\* the shape of an error envelope was returned as Ok
C1_Witness ==
  \E c \in DOMAIN calls :
    /\ calls[c].op = "delete_cloned_voice"
    /\ calls[c].pc = "done"
    /\ calls[c].resp.status = 201
    /\ calls[c].resp.succ
    /\ from_slice(calls[c].resp.body).variant = "Internal"
    /\ calls[c].outcome.kind = "Ok"

\* C2: a relay operation whose response is not 2xx returns the error
\* envelope decoded from the body, and writes or yields no byte of it
C2_RelayClassifiesFirst ==
  \A c \in DOMAIN calls :
    LET call == calls[c]
    IN (call.op \in PushOps \cup PullOps /\ Completed(call)
        /\ ~(200 <= call.resp.status /\ call.resp.status < 300)) =>
         /\ call.sink = <<>>
         /\ call.items = <<>>
         /\ call.pc \in {"done", "streaming"} =>
              call.outcome = Err("APIError", from_slice(call.resp.body))

\* the bytes a running push call has relayed: the chunks before the one
\* that is being written, and the part of that one already written
Relayed(call) ==
  Concat(SubSeq(call.resp.chunks, 1, call.next - 1))
    \o (IF call.next <= Len(call.resp.chunks)
        THEN SubSeq(call.resp.chunks[call.next], 1, call.written)
        ELSE <<>>)

\* C3: push relay is byte-exact and ordered: while the call runs the
\* writer holds the chunks written so far, in arrival order, and the part
\* already written of the one taken, and the operation returns Ok only when
\* the writer holds the whole body; a body that ends without a transport
\* error, written to a writer that takes it, ends in Ok
C3_PushByteExact ==
  \A c \in DOMAIN calls :
    LET call == calls[c]
    IN call.op \in PushOps =>
         /\ call.pc \in {"responded", "writing"} =>
              /\ call.sink = Relayed(call)
              /\ call.pc = "writing" => call.written < Len(call.resp.chunks[call.next])
         /\ call.outcome.kind = "Ok" =>
              /\ call.pc = "done"
              /\ call.next = Len(call.resp.chunks) + 1
              /\ call.sink = Concat(call.resp.chunks)
         /\ (call.pc = "done" /\ Completed(call) /\ call.sink_fail_at = 0) =>
              /\ call.outcome.kind = "Ok"
              /\ call.sink = Concat(call.resp.chunks)

\* a body of two chunks of two bytes was written whole
C3_Witness ==
  \E c \in DOMAIN calls :
    /\ calls[c].op = "write_audio_stream"
    /\ calls[c].pc = "done"
    /\ calls[c].outcome.kind = "Ok"
    /\ Len(calls[c].resp.chunks) = 2
    /\ Len(calls[c].sink) = 4
    /\ calls[c].resp.chunks[1] # calls[c].resp.chunks[2]

\* the items of a pull call are the first chunks of the body, each once
\* and in arrival order, and a finished push call given the same response
\* and a working writer has written the bytes the exhausted stream yielded
C4_Same ==
  \A p \in DOMAIN calls, q \in DOMAIN calls :
    LET push == calls[p]
        pull == calls[q]
    IN (push.op \in PushOps /\ pull.op \in PullOps /\ push.resp = pull.resp) =>
         /\ Len(pull.items) <= Len(pull.resp.chunks)
         /\ pull.items = SubSeq(pull.resp.chunks, 1, Len(pull.items))
         /\ (push.pc = "done" /\ push.sink_fail_at = 0 /\ pull.last \in {"end", "err"}) =>
              Concat(pull.items) = push.sink

\* a step keeps the items yielded so far, adds at most one, and adds none
\* once the stream has yielded its end or its error
C4_NoRestart ==
  \A q \in DOMAIN calls :
    calls[q].op \in PullOps =>
      /\ Len(calls[q].items) <= Len(calls'[q].items)
      /\ Len(calls'[q].items) <= Len(calls[q].items) + 1
      /\ SubSeq(calls'[q].items, 1, Len(calls[q].items)) = calls[q].items
      /\ calls[q].last \in {"end", "err"} => calls'[q].items = calls[q].items

\* C4: pull relay yields the bytes push relay writes for the same
\* response, yields nothing after the body is exhausted and never starts
\* over
C4_PullEqualsPush == [][C4_Same' /\ C4_NoRestart]_vars

\* both twins finished a body of two different chunks, and the stream
\* was polled once more after its end
C4_Witness ==
  /\ DOMAIN calls = {1, 2}
  /\ calls[1].pc = "done"
  /\ calls[1].outcome.kind = "Ok"
  /\ calls[2].last = "end"
  /\ Len(calls[2].items) = 2
  /\ calls[2].items[1] # calls[2].items[2]
  /\ Concat(calls[2].items) = calls[1].sink

\* when the transport fails after the chunks of the body, a push call
\* with a working writer ends in the transport error with exactly those
\* chunks written, and a stream that yielded the error or its end has
\* yielded exactly those chunks
C5_Delivered ==
  \A c \in DOMAIN calls :
    LET call == calls[c]
    IN (call.op \in PushOps \cup PullOps /\ call.resp.fail = "body") =>
         /\ (call.pc = "done" /\ call.sink_fail_at = 0) =>
              /\ call.outcome = Err("TransportError", Unit)
              /\ call.sink = Concat(call.resp.chunks)
         /\ call.pc \in {"responded", "writing"} => call.sink = Relayed(call)
         /\ call.last \in {"err", "end"} => call.items = call.resp.chunks
         /\ (call.pc = "streaming" /\ call.last \in {"none", "item"}) =>
              call.items = SubSeq(call.resp.chunks, 1, call.next - 1)

\* the item after the last chunk is the error, and nothing is delivered
\* after it
C5_Terminal ==
  \A c \in DOMAIN calls :
    LET call == calls[c]
    IN (call.op \in PushOps \cup PullOps /\ call.resp.fail = "body") =>
         /\ (call.pc = "streaming" /\ call.next > Len(call.resp.chunks)
             /\ call.last \in {"none", "item"} /\ calls'[c] # call) =>
              calls'[c].last = "err"
         /\ (call.pc = "done" \/ call.last \in {"err", "end"}) =>
              /\ calls'[c].sink = call.sink
              /\ calls'[c].items = call.items
              /\ calls'[c].outcome = call.outcome

\* C5: a transport failure in mid-stream is terminal and retracts nothing
C5_MidStreamFailure == [][C5_Delivered' /\ C5_Terminal]_vars

\* a push call ended in the transport error after it wrote two chunks
C5_Witness ==
  \E c \in DOMAIN calls :
    /\ calls[c].op \in PushOps
    /\ calls[c].resp.fail = "body"
    /\ calls[c].pc = "done"
    /\ calls[c].outcome.kind = "TransportError"
    /\ Len(calls[c].resp.chunks) = 2
    /\ calls[c].sink = Concat(calls[c].resp.chunks)

\* C6: a call of a write operation sends at most one HTTP request,
\* whatever its outcome
C6_AtMostOneRequest ==
  \A c \in DOMAIN calls :
    calls[c].op \in WriteOps =>
      /\ calls[c].sent <= 1
      /\ (calls[c].pc = "done" /\ calls[c].outcome.kind \in
            {"Ok", "APIError", "DecodeError", "TransportError"}) => calls[c].sent = 1

\* a write operation ended in a transport error after one request
C6_Witness ==
  \E c \in DOMAIN calls :
    /\ calls[c].op = "create_tts_job"
    /\ calls[c].pc = "done"
    /\ calls[c].outcome.kind = "TransportError"
    /\ calls[c].resp.fail = "send"
    /\ calls[c].sent = 1

\* v is an object whose field k is a string
HasString(v, k) == v.kind = "object" /\ k \in DOMAIN v.fields /\ v.fields[k].kind = "string"

\* the three shapes of an error body
GenericShape(v) == HasString(v, "error_message") /\ HasString(v, "error_id")

InternalShape(v) == HasString(v, "message") /\ HasString(v, "error")

BareString(v) == v.kind = "string"

\* the call read the whole body and decoded it as an error envelope
ErrorDecoded(call) == call.pc = "done" /\ call.decoders = {"error"}

\* C7: an object with string fields error_message and error_id decodes
\* to Gen with those two values, whatever else it holds.  Fails on such
\* an object that holds, in any other field, a number out of the range of
\* f64 or an array nested to the recursion limit: no Value is built
\* from it and the call ends in serde_json's error
C7_GenericFirst ==
  \A c \in DOMAIN calls :
    LET call == calls[c]
        v == call.resp.body
    IN (ErrorDecoded(call) /\ GenericShape(v)) =>
         call.outcome =
           Err("APIError", Gen(v.fields["error_message"].str, v.fields["error_id"].str))

\* C8: an object with string fields message and error, and without both
\* error_message and error_id as strings, decodes to Internal with those
\* two values.  Fails on such an object that holds a number out of the
\* range of f64 or an array nested to the recursion limit in some field
C8_Internal ==
  \A c \in DOMAIN calls :
    LET call == calls[c]
        v == call.resp.body
    IN (ErrorDecoded(call) /\ InternalShape(v) /\ ~GenericShape(v)) =>
         call.outcome = Err("APIError", Internal(v.fields["message"].str, v.fields["error"].str))

C10_Total ==
  \A c \in DOMAIN calls :
    LET call == calls[c]
        v == call.resp.body
        shaped == GenericShape(v) \/ InternalShape(v) \/ BareString(v)
    IN /\ ErrorDecoded(call) =>
            /\ call.outcome.kind \in {"APIError", "DecodeError"}
            /\ call.outcome.val.variant \in {"Gen", "Internal", "RateLimit", "DecodeError"}
            /\ call.outcome.kind = "APIError" <=> call.outcome.val.variant # "DecodeError"
            /\ call.outcome.kind = "DecodeError" <=> ~shaped
       /\ (call.pc = "done" /\ Completed(call) /\ ~shaped
           /\ ~(200 <= call.resp.status /\ call.resp.status < 300)) =>
            call.outcome.kind = "DecodeError"

\* ---- configuration
\* C11: build of a builder without a URL returns ClientBuildError; build
\* of a builder the program can hold never panics and returns a Client
\* that has a URL, a transport handle and a headers map
C11_BuildChecksUrl ==
  /\ builder.state = "live" =>
       /\ build([builder EXCEPT !.url = None]) = ClientBuildError
       /\ build(builder).kind = "Ok"
       /\ build(builder).url # None
       /\ build(builder).client # None
       /\ build(builder).headers # None
  /\ builder.state = "built" =>
       /\ client.kind = "Ok"
       /\ client.url # None /\ client.client # None /\ client.headers # None

C11_Witness ==
  /\ builder.state = "built"
  /\ client.kind = "Ok"
  /\ Len(history) >= 1
  /\ history[1].op = "path"

\* C12: Client::new() returns a usable Client in every environment:
\* neither ClientBuilder::default() nor the unwrap in Client::new panics
C12_NewAlwaysUsable ==
  /\ builder.state # "panicked"
  /\ client.kind # "panic"

\* C13: default construction succeeds when either credential variable is
\* absent; its headers always hold User-Agent, hold Authorization iff
\* PLAYHT_SECRET_KEY is set and hold X-USER-ID iff PLAYHT_USER_ID is set
C13_AbsentCredentials ==
  /\ (builder.state = "panicked") =>
       (env.PLAYHT_SECRET_KEY.set /\ env.PLAYHT_USER_ID.set)
  /\ (builder.state = "live" /\ builder.ncalls = 0) =>
       LET h == unwrap(builder.headers)
       IN /\ USER_AGENT \in DOMAIN h
          /\ (AUTHORIZATION \in DOMAIN h) <=> env.PLAYHT_SECRET_KEY.set
          /\ ("x-user-id" \in DOMAIN h) <=> env.PLAYHT_USER_ID.set

\* the header names a configuration may hold, in lower case
FoldedNames ==
  {CONTENT_TYPE, ACCEPT, USER_AGENT, AUTHORIZATION, "x-user-id"}

\* the lower-case form of a header name a caller wrote
Fold(text) ==
  CASE text \in {"Content-Type", "content-type"} -> CONTENT_TYPE
    [] text = "User-Agent" -> USER_AGENT
    [] text = "Authorization" -> AUTHORIZATION
    [] text = "Accept" -> ACCEPT
    [] text = "X-USER-ID" -> "x-user-id"
    [] OTHER -> "?"

\* the places in history of the successful header calls for name n
SetsOf(n) ==
  {i \in DOMAIN history :
     history[i].op = "header" /\ history[i].ok /\ Fold(history[i].name) = n}

Last(S) == CHOOSE i \in S : \A j \in S : j <= i

\* C14: after any sequence of header calls the map holds one value per
\* case-folded name: the value of the last successful call for that
\* name, or else the value default construction gave it
C14_LastWriteWins ==
  builder.state = "live" =>
    LET h == unwrap(builder.headers)
        d == unwrap(DefaultHeaders(env))
    IN /\ DOMAIN h \subseteq FoldedNames
       /\ \A n \in FoldedNames :
            IF SetsOf(n) # {}
            THEN n \in DOMAIN h /\ h[n] = <<history[Last(SetsOf(n))].value>>
            ELSE /\ n \in DOMAIN h <=> n \in DOMAIN d
                 /\ n \in DOMAIN h => (h[n] = d[n] /\ Len(h[n]) = 1)

C14_Witness ==
  /\ builder.state = "live"
  /\ Len(history) >= 2
  /\ history[1].name = "Content-Type" /\ history[1].value = "v1"
  /\ history[2].name = "content-type" /\ history[2].value = "v2"
  /\ unwrap(builder.headers)[CONTENT_TYPE] = <<"v2">>

\* C20: a header call fails exactly when its name or its value is
\* illegal; the builder it took is then gone, so that no configuration
\* is built from it
C20_HeaderErrors ==
  /\ \A i \in DOMAIN history :
       history[i].op = "header" =>
         (history[i].ok <=>
            (history[i].name # IllegalName /\ history[i].value # IllegalValue))
  /\ builder.state = "dropped" =>
       /\ builder.headers = None
       /\ client.kind = "none"
       /\ ~history[Len(history)].ok
       /\ history[Len(history)].op = "header" =>
            builder.error \in {"InvalidHeaderName", "InvalidHeaderValue"}
  /\ \A i \in DOMAIN history : ~history[i].ok => i = Len(history)

C20_Witness ==
  /\ builder.state = "dropped"
  /\ Len(history) >= 2
  /\ history[1].ok
  /\ history[Len(history)].op = "header"
  /\ history[Len(history)].name = "Content-Type"
  /\ history[Len(history)].value = IllegalValue

\* ---- requests
\* the headers an operation sets by itself, for a Client without headers
PerCall(op) == RequestHeaders(op, HeaderMapNew)

\* C15: when a header of the Client and a header the operation sets have
\* the same name, the request carries one value under that name, the
\* value the operation sets
C15_OverrideWins ==
  \A c \in DOMAIN calls :
    calls[c].sent = 1 =>
      \A n \in DOMAIN PerCall(calls[c].op) \cap DOMAIN unwrap(client.headers) :
        /\ Len(calls[c].req.headers[n]) = 1
        /\ calls[c].req.headers[n][1] =
             PerCall(calls[c].op)[n][Len(PerCall(calls[c].op)[n])]

\* C16: a field of the request record that is None is absent from the
\* JSON body that is sent, and the body holds no null
C16_UnsetNeverWritten ==
  \A c \in DOMAIN calls :
    (calls[c].sent = 1 /\ calls[c].op \in JobReqOps \cup StreamReqOps) =>
      LET doc == unwrap(calls[c].req.body).fields
      IN /\ \A f \in DOMAIN calls[c].arg : calls[c].arg[f] = None => f \notin DOMAIN doc
         /\ \A f \in DOMAIN doc : doc[f] # JNull

\* whether a credential variable holds a value
Present(v) == v.set

Configured(n, given, value) ==
  IF SetsOf(n) # {} THEN <<history[Last(SetsOf(n))].value>>
  ELSE IF given THEN <<value>>
  ELSE <<>>

ProgressOps ==
  {"create_tts_job_write_progress_stream", "write_tts_job_progress_stream",
   "stream_tts_job_progress"}

AudioOps == {"write_tts_job_audio_stream", "write_audio_stream", "stream_audio"}

\* C18: a metadata operation sends Accept: application/json, a progress
\* relay Accept: text/event-stream, an audio relay Accept: audio/mpeg or
\* no Accept
C18_AcceptPerKind ==
  \A c \in DOMAIN calls :
    (calls[c].sent = 1 /\ SetsOf(ACCEPT) = {}) =>
      LET h == calls[c].req.headers
      IN /\ calls[c].op \in DispatchOps =>
              (ACCEPT \in DOMAIN h /\ h[ACCEPT] = <<APPLICATION_JSON>>)
         /\ calls[c].op \in ProgressOps =>
              (ACCEPT \in DOMAIN h /\ h[ACCEPT] = <<TEXT_EVENT_STREAM>>)
         /\ calls[c].op \in AudioOps =>
              (ACCEPT \in DOMAIN h => h[ACCEPT] = <<"audio/mpeg">>)

\* ---- concurrency
\* the result of a call when it runs alone, from its own arguments and
\* its own response
AloneOutcome(call) ==
  IF BeforeSend(call) # NoOutcome THEN BeforeSend(call)
  ELSE IF call.resp.fail = "send" THEN Err("TransportError", Unit)
  ELSE IF call.op \in RawOps THEN Ok(Response(call.resp.status))
  ELSE IF call.op \in PullOps THEN Ok(Stream)
  ELSE IF call.op \in DispatchOps
  THEN IF Classify(call.resp) = "success" THEN JsonSuccess(call.resp)
       ELSE JsonError(call.resp)
  ELSE IF call.sink_fail_at \in 1 .. Len(call.resp.chunks) THEN Err("IoError", Unit)
  ELSE EndOfBody(call)

\* the bytes a call writes and the items it yields when it runs alone
AloneData(call) ==
  /\ (call.op \in PushOps /\ call.sent = 1 /\ call.resp.fail # "send") =>
       IF call.sink_fail_at = 0 THEN call.sink = Concat(call.resp.chunks)
       ELSE LET before == Concat(SubSeq(call.resp.chunks, 1, call.sink_fail_at - 1))
                upto == Concat(SubSeq(call.resp.chunks, 1, call.sink_fail_at))
            IN /\ Len(before) <= Len(call.sink) /\ Len(call.sink) < Len(upto)
               /\ call.sink = SubSeq(upto, 1, Len(call.sink))
  /\ (call.op \in PullOps /\ call.sent = 1 /\ call.resp.fail # "send") =>
       call.items = call.resp.chunks

Finished(call) ==
  \/ call.pc = "done"
  \/ call.pc = "streaming" /\ call.last \in {"end", "err"}

C19_SelfContained ==
  \A c \in DOMAIN calls :
    Finished(calls[c]) =>
      (calls[c].outcome = AloneOutcome(calls[c]) /\ AloneData(calls[c]))

C19_ReadOnly ==
  /\ client' = client
  /\ \E c \in DOMAIN calls : \A d \in DOMAIN calls \ {c} : calls'[d] = calls[d]
  /\ \A c \in DOMAIN calls :
       calls'[c].sent = 1 =>
         calls'[c].req = Request(calls[c].op, calls[c].arg, new(env))

\* C19: no step of an operation changes the Client, every step changes
\* one call only, and under every interleaving of two calls on one
\* Client each call sends the request built from the Client as it was
\* built and ends with the result it has when it runs alone
C19_ConcurrentCalls == [][C19_SelfContained' /\ C19_ReadOnly]_vars

C19_Witness ==
  /\ calls[1].op = "write_audio_stream" /\ calls[1].pc = "responded"
  /\ calls[1].sink # <<>>
  /\ calls[2].op = "create_tts_job" /\ calls[2].pc = "done"
  /\ calls[2].outcome.kind = "APIError"
  /\ calls[1].resp.status = 200

\* ---- URL of the builder
\* a text that adds one segment to a path
Plain(segment) ==
  /\ Len(segment) = 2
  /\ segment[1] = "/"
  /\ segment[2] \notin {"/", "?", ".", "..", TooLong}

RECURSIVE PathNames(_)
\* the segments the path calls of a history name, in call order
PathNames(h) ==
  IF h = <<>> THEN <<>>
  ELSE (IF Head(h).op = "path" THEN << <<Head(h).segment[2]>> >> ELSE <<>>) \o PathNames(Tail(h))

\* a step that is a call of path: it does not panic, it fails with the
\* URL error when the text of the URL followed by the segment does not
\* parse, and otherwise leaves the parse of that text as the URL
C21_PathStep ==
  (Len(history') = Len(history) + 1 /\ history'[Len(history')].op = "path") =>
    LET url == unwrap(builder.url)
        segment == history'[Len(history')].segment
        text == UrlText(url) \o segment
    IN /\ builder'.state # "panicked"
       /\ (builder'.state = "dropped") <=>
            /\ "?" \in {segment[i] : i \in DOMAIN segment}
            /\ url.query = <<>>
            /\ \E i \in DOMAIN url.path : TooLong \in {url.path[i][j] : j \in DOMAIN url.path[i]}
       /\ IF ParseUrl(text) = None
          THEN builder'.state = "dropped" /\ builder'.error = "UrlParseError"
          ELSE builder'.state = "live" /\ builder'.url = ParseUrl(text)

\* the URL a caller holds is normalised and is the parse of its own
\* text; after path calls that each add one segment its path is the
\* path of BASE_URL and V2_PATH followed by those segments in call order
C21_Accumulated ==
  builder.state = "live" =>
    LET url == unwrap(builder.url)
    IN /\ \A i \in DOMAIN url.path : url.path[i] \notin {<<".">>, <<"..">>}
       /\ ParseUrl(UrlText(url)) = Some(url)
       /\ (\A i \in DOMAIN history :
             history[i].op = "path" => Plain(history[i].segment)) =>
            /\ url.origin = <<Origin>>
            /\ url.path = <<<<"api">>, <<"v2">>>> \o PathNames(history)
            /\ url.query = <<>>

\* C21: path never panics, fails with the URL error exactly when the
\* URL text followed by the segment does not parse, and on success sets
\* the URL to the parse of that text, so that path calls accumulate in
\* call order
C21_PathAccumulates == [][C21_PathStep /\ C21_Accumulated]_vars

C21_Witness ==
  /\ builder.state = "live"
  /\ Len(history) = 2
  /\ history[1].segment = <<"/", "tts">>
  /\ history[2].segment = <<"/", "stream">>
  /\ unwrap(builder.url).path = <<<<"api">>, <<"v2">>, <<"tts">>, <<"stream">>>>

\* ---- errors before and after the request
\* C22: when reading the sample file fails, or the media type of the
\* sample part is invalid, clone_voice_from_file returns that error and
\* no HTTP request is built or sent; a request is sent only after both
C22_FileBeforeRequest ==
  \A c \in DOMAIN calls :
    LET call == calls[c]
    IN call.op = "clone_voice_from_file" =>
         /\ (~call.file_ok \/ ~call.mime_ok) => (call.sent = 0 /\ call.req = NoRequest)
         /\ (call.pc = "done" /\ ~call.file_ok) => call.outcome = Err("IoError", Unit)
         /\ (call.pc = "done" /\ call.file_ok /\ ~call.mime_ok) =>
              call.outcome = Err("MimeError", Unit)
         /\ (call.pc = "done" /\ call.file_ok /\ call.mime_ok) => call.sent = 1

C22_Witness ==
  \E c \in DOMAIN calls :
    /\ calls[c].op = "clone_voice_from_file"
    /\ calls[c].pc = "done"
    /\ calls[c].file_ok /\ ~calls[c].mime_ok
    /\ calls[c].outcome.kind = "MimeError"
    /\ calls[c].sent = 0
    /\ calls[c].resp.status = 200

\* the write of chunk k of the body of a push call fails
WriteFails(call) ==
  /\ call.op \in PushOps
  /\ call.resp.fail # "send"
  /\ call.sink_fail_at \in 1 .. Len(call.resp.chunks)

\* after the failed write the call has returned the error, it has taken
\* no chunk after chunk k, and the writer holds the chunks before k and
\* less than all of chunk k
C23_Failed ==
  \A c \in DOMAIN calls :
    LET call == calls[c]
        k == call.sink_fail_at
        before == Concat(SubSeq(call.resp.chunks, 1, k - 1))
        upto == Concat(SubSeq(call.resp.chunks, 1, k))
    IN WriteFails(call) =>
         /\ call.next <= k
         /\ call.outcome.kind # "Ok"
         /\ call.pc = "done" =>
              /\ call.outcome = Err("IoError", Unit)
              /\ call.next = k
              /\ Len(before) <= Len(call.sink) /\ Len(call.sink) < Len(upto)
              /\ call.sink = SubSeq(upto, 1, Len(call.sink))

\* a call that has returned the error of a write takes no further step
C23_Terminal ==
  \A c \in DOMAIN calls :
    (calls[c].op \in PushOps /\ calls[c].outcome.kind = "IoError") => calls'[c] = calls[c]

\* C23: when the write of chunk k fails, the push operation returns that
\* error at once: no later chunk is read or written, and the call never
\* returns Ok
C23_SinkFailureEnds == [][C23_Failed' /\ C23_Terminal]_vars

C23_Witness ==
  \E c \in DOMAIN calls :
    /\ calls[c].op = "write_tts_job_audio_stream"
    /\ calls[c].pc = "done"
    /\ calls[c].sink_fail_at = 1
    /\ Len(calls[c].resp.chunks) = 2
    /\ calls[c].outcome.kind = "IoError"
    /\ Len(calls[c].sink) = 1
    /\ calls[c].next = 1

====
